---- MODULE Spec2Model ----
(***************************************************************************)
(* kt::async_queue<T, Mutex> (src/async_queue.hpp) on top of kt::lockable  *)
(* (src/lockable.hpp): a std::deque guarded by one mutex, a condition      *)
(* variable pop() waits on, and the m_active flag.                         *)
(*                                                                         *)
(* Every thread of Threads may call every member function.  A call is a    *)
(* sequence of steps: the lock acquisition, the critical section (which    *)
(* ends with the release of the scoped lock), and, where the code notifies *)
(* after the release, the notification.  pop() has the steps of            *)
(* std::condition_variable::wait(lock, pred): evaluate pred under the      *)
(* lock, and either go on or atomically release the lock and join the wait *)
(* set; once notified (or woken spuriously) re-acquire and re-evaluate.    *)
(***************************************************************************)
EXTENDS Integers, Sequences, FiniteSets, TLC

\* ---------------------------------------------------------------- bounds
\* Spec: the threads that call the queue, and the calls they make in all
NumThreads == 2
MaxCalls == 4
\* FairSpec (the liveness claims): more threads, fewer calls
NumFairThreads == 3
MaxFairCalls == 3
\* StrongFairSpec (termination under fair lock acquisition)
NumStrongThreads == 2
MaxStrongCalls == 3
\* LockerSpec: the threads that use one locker_t, and their calls to lock
NumLockerThreads == 3
MaxLockerCalls == 4
\* TeardownSpec: the threads and the calls made before the destructor runs
NumTeardownThreads == 3
MaxTeardownCalls == 2
\* length of the containers given to the bulk push
BulkLen == 2

Max(m, n) == IF m > n THEN m ELSE n
Threads == 1..Max(NumThreads, Max(NumFairThreads, NumTeardownThreads))
\* the fields of the locker's tuple, the values written to them, and the
\* value the default constructor gives them
Fields == {1, 2}
Values == {1, 2}
Zero == 0
Items == {"a", "b"}
\* the containers a bulk push is given
Containers == [1..BulkLen -> Items]
\* std::optional<T>{}: pop()'s "no value"
None == "none"
\* the mutex is held by no thread
Free == 0

VARIABLES
    m_queue,    \* std::deque<T> m_queue
    m_active,   \* bool m_active
    m_mutex,    \* lockable_t<Mutex> m_mutex: the thread holding it, or Free
    m_cv,       \* std::condition_variable m_cv: the threads suspended in wait()
    call,       \* per thread: the member function it is in (or was last in)
    pc,         \* per thread: "idle", "lock", "body", "wait", "notify", ...
    arg,        \* per thread: the argument of the call
    ret,        \* per thread: what the last completed call returned
    waited,     \* per thread: the current pop() has suspended at least once
    hist,       \* the critical sections executed so far, in order
    budget,     \* number of calls the threads may still start
    alive,      \* the object's members have not been destroyed
    dtor,       \* the thread running ~async_queue, or Free
    pending,    \* the threads suspended in pop() when ~async_queue began
    mutex,      \* locker_t::mutex: the thread whose accessor holds it, or Free
    tuple,      \* locker_t::tuple: the values of its fields
    lk_pc,      \* where each thread is in its use of the locker
    lk_arg,     \* the call in progress: lock() or lock() const, value written
    lk_seen,    \* what each thread read through its last const accessor
    lk_budget   \* the calls to locker_t::lock the threads may still make

queueVars == <<m_queue, m_active, m_mutex, m_cv, call, pc, arg, ret, waited, hist,
               budget, alive, dtor, pending>>

lockerVars == <<mutex, tuple, lk_pc, lk_arg, lk_seen, lk_budget>>

vars == <<m_queue, m_active, m_mutex, m_cv, call, pc, arg, ret, waited, hist,
          budget, alive, dtor, pending, mutex, tuple, lk_pc, lk_arg, lk_seen,
          lk_budget>>

\* ------------------------------------------------- the code's expressions

\* (mutation: wait() without a predicate returns on the first wake-up)
WaitPredicateAlways(q, a) == TRUE

\* (mutation: the flag is not part of the predicate)
WaitPredicateNoFlag(q, a) == Len(q) > 0

\* line 130: the predicate pop() waits for
WaitPredicate(q, a) == Len(q) > 0 \/ ~a

\* (mutation: the flag is not looked at)
PopTakesInactive(q, a) == Len(q) > 0

\* line 131: whether pop() takes the front item
PopTakes(q, a) == a /\ Len(q) > 0

\* (mutation: back() instead of front())
FrontIsBack(q) == q[Len(q)]

\* (mutation: the front item is returned but not removed)
PopFrontKeeps(q) == q

\* lines 132-133: front() and pop_front()
Front(q) == Head(q)
PopFront(q) == Tail(q)

\* (mutation: no check of the flag)
EmplaceBackAlways(q, a, x) == Append(q, x)

\* lines 108-110: emplace_back when active
EmplaceBack(q, a, x) == IF a THEN Append(q, x) ELSE q

\* line 109: emplace_back whose construction of the item throws has no
\* effect on the deque (inserting a single element at an end)
EmplaceBackThrows(q) == q

\* lines 120-122: std::move(begin, end, back_inserter) when active
MoveAll(q, a, ts) == IF a THEN q \o ts ELSE q

\* (mutation: the sequence is cleared before it is moved out)
ClearResultLost(q) == <<>>

\* (mutation: the argument is ignored)
ClearActiveIgnored(flag) == FALSE

\* lines 144-146: what clear() returns, leaves behind, and sets
ClearResult(q) == q
ClearQueue(q) == <<>>
ClearActive(flag) == flag

\* (mutation: nobody is notified)
NotifyOneLost(cv) == {cv}
NotifyAllLost(cv) == cv

\* notify_one: the wait sets that can result (one waiter leaves, if any)
NotifyOne(cv) == IF cv = {} THEN {cv} ELSE {cv \ {w} : w \in cv}

\* notify_all: every waiter leaves
NotifyAll(cv) == {}

\* the argument of a call: a T (emplace), a container of T (bulk push) or
\* a bool (clear, active), the others left at a default
NoArg == [x |-> None, ts |-> <<>>, flag |-> FALSE]
ArgItem(x) == [NoArg EXCEPT !.x = x]
ArgItems(ts) == [NoArg EXCEPT !.ts = ts]
ArgFlag(flag) == [NoArg EXCEPT !.flag = flag]

\* what a call returned: a std::optional<T> (pop), a std::deque<T> (clear)
\* or a bool (empty, active), the others left at a default; threw when it
\* ended with an exception instead
NoRet == [opt |-> None, deque |-> <<>>, bool |-> FALSE, threw |-> FALSE]

\* the record of one critical section: who, which call, its argument (for
\* pop(), the item it returned, or None), and the queue, flag and wait set
\* it found
Event(t, op, v) ==
    [t |-> t, op |-> op, x |-> v.x, ts |-> v.ts, flag |-> v.flag,
     q |-> m_queue, a |-> m_active, cv |-> m_cv]

\* ------------------------------------------------------------------ Init
\* the state after construction, with n threads that will make calls calls
\* in all; the other threads never touch the queue
QueueInitWith(n, calls) ==
    /\ m_queue = <<>>
    /\ m_active = TRUE
    /\ m_mutex = Free
    /\ m_cv = {}
    /\ call = [t \in Threads |-> "none"]
    /\ pc = [t \in Threads |-> IF t <= n THEN "idle" ELSE "absent"]
    /\ arg = [t \in Threads |-> NoArg]
    /\ ret = [t \in Threads |-> NoRet]
    /\ waited = [t \in Threads |-> FALSE]
    /\ hist = <<>>
    /\ budget = calls
    /\ alive = TRUE
    /\ dtor = Free
    /\ pending = {}

\* locker_t(): a free mutex and value-initialized fields; n threads will
\* make calls calls to lock in all
LockerInitWith(n, calls) ==
    /\ mutex = Free
    /\ tuple = [i \in Fields |-> Zero]
    /\ lk_pc = [t \in Threads |-> IF t <= n THEN "idle" ELSE "absent"]
    /\ lk_arg = [t \in Threads |-> [const |-> FALSE, v |-> Zero]]
    /\ lk_seen = [t \in Threads |-> [i \in Fields |-> Zero]]
    /\ lk_budget = calls

\* a queue and its callers; the locker is a separate object that these
\* threads do not use
InitWith(n, calls) == QueueInitWith(n, calls) /\ LockerInitWith(0, 0)

Init == InitWith(NumThreads, MaxCalls)

\* ----------------------------------------------------------------- calls
\* The threads are interchangeable (no member function looks at the
\* caller's identity), so they are numbered in the order of their first
\* calls: a thread makes its first call after the threads before it did.
InOrder(t) == \A u \in Threads : u < t => call[u] # "none"

\* thread t, outside the queue, calls op with argument a
Begin(t, op, a) ==
    /\ alive
    /\ dtor = Free
    /\ pc[t] = "idle"
    /\ InOrder(t)
    /\ budget > 0
    /\ budget' = budget - 1
    /\ call' = [call EXCEPT ![t] = op]
    /\ pc' = [pc EXCEPT ![t] = "lock"]
    /\ arg' = [arg EXCEPT ![t] = a]
    /\ ret' = [ret EXCEPT ![t] = NoRet]
    /\ waited' = [waited EXCEPT ![t] = FALSE]
    /\ UNCHANGED <<m_queue, m_active, m_mutex, m_cv, hist, alive, dtor, pending, lockerVars>>

\* push(T&&) and push(T const&) forward to emplace<T>
call_emplace(t, x) == Begin(t, "emplace", ArgItem(x))
call_push(t, ts) == Begin(t, "push", ArgItems(ts))
call_pop(t) == Begin(t, "pop", NoArg)
call_clear(t, flag) == Begin(t, "clear", ArgFlag(flag))
call_empty(t) == Begin(t, "empty", NoArg)
call_active(t) == Begin(t, "active", NoArg)
call_active_set(t, set) == Begin(t, "active_set", ArgFlag(set))

\* a step of thread t of a call to op, at label
At(t, op, label) == alive /\ call[t] = op /\ pc[t] = label

\* (mutation: the mutex is taken without waiting for its holder)
lock_barges(t) ==
    /\ alive
    /\ pc[t] = "lock"
    /\ m_mutex' = t
    /\ pc' = [pc EXCEPT ![t] = "body"]
    /\ UNCHANGED <<m_queue, m_active, m_cv, call, arg, ret, waited, hist,
                   budget, alive, dtor, pending, lockerVars>>

\* lockable::lock: blocks until the mutex is acquired
lock(t) ==
    /\ alive
    /\ pc[t] = "lock"
    /\ m_mutex = Free
    /\ m_mutex' = t
    /\ pc' = [pc EXCEPT ![t] = "body"]
    /\ UNCHANGED <<m_queue, m_active, m_cv, call, arg, ret, waited, hist,
                   budget, alive, dtor, pending, lockerVars>>

\* --------------------------------------------------------------- emplace
\* (mutation: emplace returns without notifying)
emplace_body_no_notify(t) ==
    /\ At(t, "emplace", "body")
    /\ m_mutex = t
    /\ m_queue' = EmplaceBack(m_queue, m_active, arg[t].x)
    /\ m_mutex' = Free
    /\ hist' = Append(hist, Event(t, "emplace", arg[t]))
    /\ pc' = [pc EXCEPT ![t] = "idle"]
    /\ UNCHANGED <<m_active, m_cv, call, arg, ret, waited, budget, alive, dtor, pending, lockerVars>>

emplace_body(t) ==
    /\ At(t, "emplace", "body")
    /\ m_mutex = t
    /\ m_queue' = EmplaceBack(m_queue, m_active, arg[t].x)
    /\ m_mutex' = Free
    /\ hist' = Append(hist, Event(t, "emplace", arg[t]))
    /\ pc' = [pc EXCEPT ![t] = "notify"]
    /\ UNCHANGED <<m_active, m_cv, call, arg, ret, waited, budget, alive, dtor, pending, lockerVars>>

\* (mutation: lock()/unlock() by hand, the unlock is skipped by a throw)
emplace_throw_keeps_lock(t) ==
    /\ At(t, "emplace", "body")
    /\ m_mutex = t
    /\ m_active
    /\ m_queue' = EmplaceBackThrows(m_queue)
    /\ ret' = [ret EXCEPT ![t].threw = TRUE]
    /\ pc' = [pc EXCEPT ![t] = "idle"]
    /\ UNCHANGED <<m_active, m_mutex, m_cv, call, arg, hist, waited, budget,
                   alive, dtor, pending, lockerVars>>

\* lines 107-109: the construction of the item (attempted only when active)
\* throws; the scoped lock is released by unwinding, line 112 is not reached
emplace_throw(t) ==
    /\ At(t, "emplace", "body")
    /\ m_mutex = t
    /\ m_active
    /\ m_queue' = EmplaceBackThrows(m_queue)
    /\ m_mutex' = Free
    /\ ret' = [ret EXCEPT ![t].threw = TRUE]
    /\ pc' = [pc EXCEPT ![t] = "idle"]
    /\ UNCHANGED <<m_active, m_cv, call, arg, hist, waited, budget, alive, dtor,
                   pending, lockerVars>>

emplace_notify(t) ==
    /\ At(t, "emplace", "notify")
    /\ m_cv' \in NotifyOne(m_cv)
    /\ pc' = [pc EXCEPT ![t] = "idle"]
    /\ UNCHANGED <<m_queue, m_active, m_mutex, call, arg, ret, waited, hist,
                   budget, alive, dtor, pending, lockerVars>>

\* ------------------------------------------------------------- bulk push
\* (mutation: a bounded queue, the bulk push waits while items are queued)
push_body_waits(t) ==
    /\ At(t, "push", "body")
    /\ m_mutex = t
    /\ IF Len(m_queue) > 0
         THEN /\ m_cv' = m_cv \cup {t}
              /\ pc' = [pc EXCEPT ![t] = "wait"]
              /\ UNCHANGED <<m_queue, hist>>
         ELSE /\ m_queue' = MoveAll(m_queue, m_active, arg[t].ts)
              /\ hist' = Append(hist, Event(t, "push", arg[t]))
              /\ pc' = [pc EXCEPT ![t] = "notify"]
              /\ m_cv' = m_cv
    /\ m_mutex' = Free
    /\ UNCHANGED <<m_active, call, arg, ret, waited, budget, alive, dtor, pending, lockerVars>>

push_body(t) ==
    /\ At(t, "push", "body")
    /\ m_mutex = t
    /\ m_queue' = MoveAll(m_queue, m_active, arg[t].ts)
    /\ m_mutex' = Free
    /\ hist' = Append(hist, Event(t, "push", arg[t]))
    /\ pc' = [pc EXCEPT ![t] = "notify"]
    /\ UNCHANGED <<m_active, m_cv, call, arg, ret, waited, budget, alive, dtor, pending, lockerVars>>

push_notify(t) ==
    /\ At(t, "push", "notify")
    /\ m_cv' = NotifyAll(m_cv)
    /\ pc' = [pc EXCEPT ![t] = "idle"]
    /\ UNCHANGED <<m_queue, m_active, m_mutex, call, arg, ret, waited, hist,
                   budget, alive, dtor, pending, lockerVars>>

\* ------------------------------------------------------------------- pop
\* m_cv.wait(lock, pred) with the lock held: pred is false, so the lock is
\* released and the thread suspends, atomically
pop_suspend(t) ==
    /\ At(t, "pop", "body")
    /\ m_mutex = t
    /\ ~WaitPredicate(m_queue, m_active)
    /\ m_cv' = m_cv \cup {t}
    /\ m_mutex' = Free
    /\ pc' = [pc EXCEPT ![t] = "wait"]
    /\ waited' = [waited EXCEPT ![t] = TRUE]
    /\ UNCHANGED <<m_queue, m_active, call, arg, ret, hist, budget, alive, dtor, pending, lockerVars>>

\* (mutation: "if" instead of the loop of wait(lock, pred): a woken pop()
\* returns without evaluating the predicate again)
pop_return_no_loop(t) ==
    /\ At(t, "pop", "body")
    /\ m_mutex = t
    /\ WaitPredicate(m_queue, m_active) \/ waited[t]
    /\ IF PopTakes(m_queue, m_active)
         THEN /\ ret' = [ret EXCEPT ![t].opt = Front(m_queue)]
              /\ m_queue' = PopFront(m_queue)
              /\ hist' = Append(hist, Event(t, "pop", ArgItem(Front(m_queue))))
         ELSE /\ ret' = [ret EXCEPT ![t].opt = None]
              /\ m_queue' = m_queue
              /\ hist' = Append(hist, Event(t, "pop", NoArg))
    /\ m_mutex' = Free
    /\ pc' = [pc EXCEPT ![t] = "idle"]
    /\ UNCHANGED <<m_active, m_cv, call, arg, waited, budget, alive, dtor, pending, lockerVars>>

\* pred is true: wait() returns with the lock held, lines 131-136 run and
\* the unique_lock is released on return
pop_return(t) ==
    /\ At(t, "pop", "body")
    /\ m_mutex = t
    /\ WaitPredicate(m_queue, m_active)
    /\ IF PopTakes(m_queue, m_active)
         THEN /\ ret' = [ret EXCEPT ![t].opt = Front(m_queue)]
              /\ m_queue' = PopFront(m_queue)
              /\ hist' = Append(hist, Event(t, "pop", ArgItem(Front(m_queue))))
         ELSE /\ ret' = [ret EXCEPT ![t].opt = None]
              /\ m_queue' = m_queue
              /\ hist' = Append(hist, Event(t, "pop", NoArg))
    /\ m_mutex' = Free
    /\ pc' = [pc EXCEPT ![t] = "idle"]
    /\ UNCHANGED <<m_active, m_cv, call, arg, waited, budget, alive, dtor, pending, lockerVars>>

\* a woken waiter re-acquires the lock inside wait() and evaluates pred again
pop_reacquire(t) ==
    /\ At(t, "pop", "wait")
    /\ t \notin m_cv
    /\ m_mutex = Free
    /\ m_mutex' = t
    /\ pc' = [pc EXCEPT ![t] = "body"]
    /\ UNCHANGED <<m_queue, m_active, m_cv, call, arg, ret, waited, hist,
                   budget, alive, dtor, pending, lockerVars>>

\* std::condition_variable permits spurious wakeups
spurious_wakeup(t) ==
    /\ alive
    /\ t \in m_cv
    /\ m_cv' = m_cv \ {t}
    /\ UNCHANGED <<m_queue, m_active, m_mutex, call, pc, arg, ret, waited, hist,
                   budget, alive, dtor, pending, lockerVars>>

\* ----------------------------------------------------------------- clear
clear_body(t) ==
    /\ At(t, "clear", "body")
    /\ m_mutex = t
    /\ ret' = [ret EXCEPT ![t].deque = ClearResult(m_queue)]
    /\ m_queue' = ClearQueue(m_queue)
    /\ m_active' = ClearActive(arg[t].flag)
    /\ m_mutex' = Free
    /\ hist' = Append(hist, Event(t, "clear", arg[t]))
    /\ pc' = [pc EXCEPT ![t] = "notify"]
    /\ UNCHANGED <<m_cv, call, arg, waited, budget, alive, dtor, pending, lockerVars>>

clear_notify(t) ==
    /\ At(t, "clear", "notify")
    /\ m_cv' = NotifyAll(m_cv)
    /\ pc' = [pc EXCEPT ![t] = IF dtor = t THEN "members" ELSE "idle"]
    /\ UNCHANGED <<m_queue, m_active, m_mutex, call, arg, ret, waited, hist,
                   budget, alive, dtor, pending, lockerVars>>

\* ------------------------------------------------------- empty and active
\* (mutation: an inactive queue is reported as empty)
empty_body_inactive(t) ==
    /\ At(t, "empty", "body")
    /\ m_mutex = t
    /\ ret' = [ret EXCEPT ![t].bool = (Len(m_queue) = 0 \/ ~m_active)]
    /\ m_mutex' = Free
    /\ pc' = [pc EXCEPT ![t] = "idle"]
    /\ UNCHANGED <<m_queue, m_active, m_cv, call, arg, waited, hist, budget,
                   alive, dtor, pending, lockerVars>>

empty_body(t) ==
    /\ At(t, "empty", "body")
    /\ m_mutex = t
    /\ ret' = [ret EXCEPT ![t].bool = (Len(m_queue) = 0)]
    /\ m_mutex' = Free
    /\ pc' = [pc EXCEPT ![t] = "idle"]
    /\ UNCHANGED <<m_queue, m_active, m_cv, call, arg, waited, hist, budget,
                   alive, dtor, pending, lockerVars>>

active_body(t) ==
    /\ At(t, "active", "body")
    /\ m_mutex = t
    /\ ret' = [ret EXCEPT ![t].bool = m_active]
    /\ m_mutex' = Free
    /\ pc' = [pc EXCEPT ![t] = "idle"]
    /\ UNCHANGED <<m_queue, m_active, m_cv, call, arg, waited, hist, budget,
                   alive, dtor, pending, lockerVars>>

\* (mutation: reactivating starts from an empty sequence)
active_set_resets(t) ==
    /\ At(t, "active_set", "body")
    /\ m_mutex = t
    /\ m_active' = arg[t].flag
    /\ m_queue' = IF arg[t].flag THEN <<>> ELSE m_queue
    /\ m_cv' = NotifyAll(m_cv)
    /\ m_mutex' = Free
    /\ hist' = Append(hist, Event(t, "active_set", arg[t]))
    /\ pc' = [pc EXCEPT ![t] = "idle"]
    /\ UNCHANGED <<call, arg, ret, waited, budget, alive, dtor, pending, lockerVars>>

\* (mutation: deactivating also drops the items)
active_set_drains(t) ==
    /\ At(t, "active_set", "body")
    /\ m_mutex = t
    /\ m_active' = arg[t].flag
    /\ m_queue' = IF arg[t].flag THEN m_queue ELSE <<>>
    /\ m_cv' = NotifyAll(m_cv)
    /\ m_mutex' = Free
    /\ hist' = Append(hist, Event(t, "active_set", arg[t]))
    /\ pc' = [pc EXCEPT ![t] = "idle"]
    /\ UNCHANGED <<call, arg, ret, waited, budget, alive, dtor, pending, lockerVars>>

\* active(bool): the flag is set and all are notified with the lock held
active_set_body(t) ==
    /\ At(t, "active_set", "body")
    /\ m_mutex = t
    /\ m_active' = arg[t].flag
    /\ m_cv' = NotifyAll(m_cv)
    /\ m_mutex' = Free
    /\ hist' = Append(hist, Event(t, "active_set", arg[t]))
    /\ pc' = [pc EXCEPT ![t] = "idle"]
    /\ UNCHANGED <<m_queue, call, arg, ret, waited, budget, alive, dtor, pending, lockerVars>>

\* ------------------------------------------------------------------ Next
Next ==
    \E t \in Threads :
        \/ \E x \in Items : call_emplace(t, x)
        \/ \E ts \in Containers : call_push(t, ts)
        \/ call_pop(t)
        \/ \E flag \in BOOLEAN : call_clear(t, flag)
        \/ call_empty(t)
        \/ call_active(t)
        \/ \E set \in BOOLEAN : call_active_set(t, set)
        \/ lock(t)
        \/ emplace_body(t)
        \/ emplace_throw(t)
        \/ emplace_notify(t)
        \/ push_body(t)
        \/ push_notify(t)
        \/ pop_suspend(t)
        \/ pop_return(t)
        \/ pop_reacquire(t)
        \/ spurious_wakeup(t)
        \/ clear_body(t)
        \/ clear_notify(t)
        \/ empty_body(t)
        \/ active_body(t)
        \/ active_set_body(t)

Spec == Init /\ [][Next]_vars

\* ------------------------------------------------------------- fairness
\* the steps a thread takes inside a call once it is scheduled
Steps(t) ==
    \/ emplace_body(t) \/ emplace_throw(t) \/ emplace_notify(t)
    \/ push_body(t) \/ push_notify(t)
    \/ pop_suspend(t) \/ pop_return(t)
    \/ clear_body(t) \/ clear_notify(t)
    \/ empty_body(t) \/ active_body(t) \/ active_set_body(t)

\* the acquisitions of the mutex
Acquire(t) == lock(t) \/ pop_reacquire(t)

FairInit == InitWith(NumFairThreads, MaxFairCalls)

\* what thread t does next inside the call it is in
Proceed(t) == Steps(t) \/ Acquire(t)

\* fair scheduling: a thread that can go on inside its call, and stays able
\* to, eventually does.  Starting a call and a spurious wakeup are never
\* required.
FairSpec ==
    /\ FairInit
    /\ [][Next]_vars
    /\ \A t \in Threads : WF_vars(Proceed(t))

\* fair lock acquisition: a thread that is able to take the mutex again and
\* again eventually takes it (not promised by std::mutex; the hypothesis under
\* which the calls other than pop() terminate)
StrongFairInit == InitWith(NumStrongThreads, MaxStrongCalls)

StrongFairSpec ==
    /\ StrongFairInit
    /\ [][Next]_vars
    /\ \A t \in Threads : WF_vars(Steps(t)) /\ SF_vars(Acquire(t))

\* ------------------------------------------------------------- teardown
\* ~async_queue(): clear() with the default argument, then the members are
\* destroyed.  It runs while the other threads are outside the queue or
\* suspended in pop().
dtor_begin(t) ==
    /\ alive
    /\ dtor = Free
    /\ pc[t] = "idle"
    /\ \A u \in Threads \ {t} : pc[u] \in {"idle", "absent"} \/ u \in m_cv
    /\ dtor' = t
    /\ pending' = m_cv
    /\ call' = [call EXCEPT ![t] = "clear"]
    /\ pc' = [pc EXCEPT ![t] = "lock"]
    /\ arg' = [arg EXCEPT ![t] = ArgFlag(FALSE)]
    /\ ret' = [ret EXCEPT ![t] = NoRet]
    /\ UNCHANGED <<m_queue, m_active, m_mutex, m_cv, waited, hist, budget, alive,
                   lockerVars>>

\* after the destructor's body: m_active, m_mutex, m_queue and m_cv are
\* destroyed, whoever is still inside pop()
dtor_members(t) ==
    /\ alive
    /\ dtor = t
    /\ pc[t] = "members"
    /\ alive' = FALSE
    /\ pc' = [pc EXCEPT ![t] = "gone"]
    /\ UNCHANGED <<m_queue, m_active, m_mutex, m_cv, call, arg, ret, waited,
                   hist, budget, dtor, pending, lockerVars>>

\* what a thread still inside pop() can come back with once the members it
\* uses are destroyed
AfterDestroy == Items \cup {None, "crash"}

\* a thread inside pop() goes on after the members are destroyed: it locks
\* a destroyed mutex and reads a destroyed deque and flag, which is
\* undefined; it may return anything, or not return
use_after_destroy(t) ==
    /\ ~alive
    /\ pc[t] \in {"lock", "body", "wait"}
    /\ \E r \in AfterDestroy :
         IF r = "crash"
           THEN /\ pc' = [pc EXCEPT ![t] = "crashed"]
                /\ ret' = ret
           ELSE /\ pc' = [pc EXCEPT ![t] = "idle"]
                /\ ret' = [ret EXCEPT ![t].opt = r]
    /\ UNCHANGED <<m_queue, m_active, m_mutex, m_cv, call, arg, waited, hist,
                   budget, alive, dtor, pending, lockerVars>>

TeardownNext ==
    \/ Next
    \/ \E t \in Threads : dtor_begin(t)
    \/ \E t \in Threads : dtor_members(t)
    \/ \E t \in Threads : use_after_destroy(t)

TeardownInit == InitWith(NumTeardownThreads, MaxTeardownCalls)

TeardownSpec == TeardownInit /\ [][TeardownNext]_vars

\* ---------------------------------------------------------------- locker
\* a thread calls locker_t::lock() (const is FALSE) to write v to every
\* field, or locker_t::lock() const to read every field
locker_lock(t, const, v) ==
    /\ lk_pc[t] = "idle"
    /\ lk_budget > 0
    /\ lk_budget' = lk_budget - 1
    /\ lk_arg' = [lk_arg EXCEPT ![t] = [const |-> const, v |-> v]]
    /\ lk_pc' = [lk_pc EXCEPT ![t] = "locked_t"]
    /\ UNCHANGED <<mutex, tuple, lk_seen, queueVars>>

\* (mutation: the accessor is built without acquiring the mutex)
locked_t_unlocked(t) ==
    /\ lk_pc[t] = "locked_t"
    /\ mutex' = t
    /\ lk_pc' = [lk_pc EXCEPT ![t] = "get1"]
    /\ UNCHANGED <<tuple, lk_arg, lk_seen, lk_budget, queueVars>>

\* locked_t::locked_t: lock(mutex.lock<L>()) blocks until the mutex is
\* acquired (L is std::scoped_lock), then the accessor is alive
locked_t(t) ==
    /\ lk_pc[t] = "locked_t"
    /\ mutex = Free
    /\ mutex' = t
    /\ lk_pc' = [lk_pc EXCEPT ![t] = "get1"]
    /\ UNCHANGED <<tuple, lk_arg, lk_seen, lk_budget, queueVars>>

\* locked_t::get<I>(): a reference to field I of the locker's tuple, read
\* through the const accessor and written through the other one
get(t, I) ==
    /\ lk_pc[t] = (IF I = 1 THEN "get1" ELSE "get2")
    /\ IF lk_arg[t].const
         THEN /\ lk_seen' = [lk_seen EXCEPT ![t][I] = tuple[I]]
              /\ tuple' = tuple
         ELSE /\ tuple' = [tuple EXCEPT ![I] = lk_arg[t].v]
              /\ lk_seen' = lk_seen
    /\ lk_pc' = [lk_pc EXCEPT ![t] = (IF I = 1 THEN "get2" ELSE "~locked_t")]
    /\ UNCHANGED <<mutex, lk_arg, lk_budget, queueVars>>

\* the accessor is destroyed: its lock member releases the mutex
locked_t_dtor(t) ==
    /\ lk_pc[t] = "~locked_t"
    /\ mutex' = Free
    /\ lk_pc' = [lk_pc EXCEPT ![t] = "idle"]
    /\ UNCHANGED <<tuple, lk_arg, lk_seen, lk_budget, queueVars>>

LockerNext ==
    \E t \in Threads :
        \/ \E const \in BOOLEAN, v \in Values : locker_lock(t, const, v)
        \/ locked_t(t)
        \/ \E I \in Fields : get(t, I)
        \/ locked_t_dtor(t)

LockerInit == QueueInitWith(0, 0) /\ LockerInitWith(NumLockerThreads, MaxLockerCalls)

LockerSpec == LockerInit /\ [][LockerNext]_vars

\* ------------------------------------------------------- reading hist
\* the items the events of h put into the sequence, in order
RECURSIVE Accepted(_)
Accepted(h) ==
    IF h = <<>> THEN <<>>
    ELSE LET e == h[Len(h)]
             rest == Accepted(SubSeq(h, 1, Len(h) - 1))
         IN  IF e.op = "emplace" /\ e.a THEN Append(rest, e.x)
             ELSE IF e.op = "push" /\ e.a THEN rest \o e.ts
             ELSE rest

\* the items the events of h took out of the sequence, in order: one by a
\* pop() that returned an item, all that were there by a clear()
RECURSIVE Removed(_)
Removed(h) ==
    IF h = <<>> THEN <<>>
    ELSE LET e == h[Len(h)]
             rest == Removed(SubSeq(h, 1, Len(h) - 1))
         IN  IF e.op = "pop" /\ e.x # None THEN Append(rest, e.x)
             ELSE IF e.op = "clear" THEN rest \o e.q
             ELSE rest

\* the items pop() returned, in order
RECURSIVE Popped(_)
Popped(h) ==
    IF h = <<>> THEN <<>>
    ELSE LET e == h[Len(h)]
             rest == Popped(SubSeq(h, 1, Len(h) - 1))
         IN  IF e.op = "pop" /\ e.x # None THEN Append(rest, e.x) ELSE rest

\* the items the calls to clear() returned, in order
RECURSIVE Cleared(_)
Cleared(h) ==
    IF h = <<>> THEN <<>>
    ELSE LET e == h[Len(h)]
             rest == Cleared(SubSeq(h, 1, Len(h) - 1))
         IN  IF e.op = "clear" THEN rest \o e.q ELSE rest

\* how many times x occurs in the sequence s
Count(x, s) == Cardinality({i \in DOMAIN s : s[i] = x})

\* thread t takes a step of a call to op, from label from to label to
StepOf(t, op, from, to) == call[t] = op /\ pc[t] = from /\ pc'[t] = to

\* ------------------------------------------------------------- claims

\* C1: FIFO delivery.  The items taken out so far (by pop(), one at a
\* time, or by clear()), followed by the items still in the sequence, are
\* exactly the accepted items in the order their critical sections ran: an
\* item accepted earlier is never delivered after one accepted later.
C1_Fifo == Removed(hist) \o m_queue = Accepted(hist)

\* one thread emplaced a then b, the other popped a then b
C1_Witness ==
    /\ Len(hist) = 4
    /\ hist[1].op = "emplace" /\ hist[2].op = "emplace"
    /\ hist[1].t = hist[2].t
    /\ hist[3].op = "pop" /\ hist[4].op = "pop"
    /\ hist[3].t = hist[4].t /\ hist[3].t # hist[1].t
    /\ Accepted(hist) = <<"a", "b">>
    /\ Popped(hist) = <<"a", "b">>

\* C2: drop when inactive.  A critical section of emplace() (so of
\* push(item)) or of the bulk push that runs while m_active is false
\* leaves the sequence and the flag as they were.
C2_DropWhenInactive ==
    [][\A t \in Threads :
         (~m_active /\ (StepOf(t, "emplace", "body", "notify")
                         \/ StepOf(t, "push", "body", "notify")))
         => (m_queue' = m_queue /\ m_active' = m_active)]_vars

\* an emplace and a bulk push were both discarded by a deactivated queue
\* that holds items, which are still there
C2_Witness ==
    /\ Len(hist) >= 2
    /\ LET e == hist[Len(hist) - 1]
           f == hist[Len(hist)]
       IN  /\ e.op = "emplace" /\ ~e.a /\ e.q # <<>>
           /\ f.op = "push" /\ ~f.a /\ f.q = e.q
           /\ m_queue = e.q

\* C3: pop() returns "no value" and removes nothing when its final
\* critical section runs while m_active is false, items or not; it returns
\* an item only when m_active is true and the sequence is not empty, and
\* then the front one.
C3_PopInactive ==
    [][\A t \in Threads :
         StepOf(t, "pop", "body", "idle") =>
           /\ ~m_active => (ret'[t].opt = None /\ m_queue' = m_queue)
           /\ ret'[t].opt # None =>
                (m_active /\ m_queue # <<>> /\ ret'[t].opt = Head(m_queue)
                 /\ m_queue' = Tail(m_queue))]_vars

\* a pop() returned "no value" from a deactivated queue holding items
C3_Witness ==
    \E i \in 1..Len(hist) :
        /\ hist[i].op = "pop" /\ ~hist[i].a /\ hist[i].q # <<>>
        /\ hist[i].x = None
        /\ pc[hist[i].t] = "idle" /\ ret[hist[i].t].opt = None
        /\ i = Len(hist) /\ m_queue = hist[i].q

\* C4: clear(flag) returns exactly the sequence its critical section
\* found, in order, leaves the sequence empty and sets m_active to flag;
\* it runs holding the mutex, so no other call acts in between.
C4_Clear ==
    [][\A t \in Threads :
         StepOf(t, "clear", "body", "notify") =>
           /\ m_mutex = t
           /\ ret'[t].deque = m_queue
           /\ m_queue' = <<>>
           /\ m_active' = arg[t].flag]_vars

\* three items were pushed and clear(false) returned them in order
C4_Witness ==
    \E t \in Threads :
        /\ call[t] = "clear" /\ pc[t] = "idle" /\ arg[t].flag = FALSE
        /\ Len(ret[t].deque) = 3 /\ ret[t].deque = Accepted(hist)
        /\ ret[t].deque[1] # ret[t].deque[3]
        /\ m_queue = <<>> /\ ~m_active

\* C5: stranded items.  active(set) never changes the sequence; while
\* m_active is false a pop() returns "no value" and leaves the sequence
\* alone; and the sequence of a deactivated queue changes only by a
\* clear(), which returns exactly that sequence.
C5_Stranded ==
    [][/\ \A t \in Threads :
            StepOf(t, "active_set", "body", "idle") => m_queue' = m_queue
       /\ \A t \in Threads :
            (~m_active /\ StepOf(t, "pop", "body", "idle"))
            => (ret'[t].opt = None /\ m_queue' = m_queue)
       /\ (~m_active /\ m_queue' # m_queue)
            => \E t \in Threads :
                 StepOf(t, "clear", "body", "notify") /\ ret'[t].deque = m_queue]_vars

\* the queue held [a, b], active(false), a pop() returned "no value", and
\* clear() returned [a, b]
C5_Witness ==
    /\ Len(hist) >= 3
    /\ LET n == Len(hist) IN
       /\ hist[n-2].op = "active_set" /\ hist[n-2].flag = FALSE
       /\ hist[n-2].a /\ hist[n-2].q = <<"a", "b">>
       /\ hist[n-1].op = "pop" /\ hist[n-1].x = None
       /\ hist[n].op = "clear" /\ hist[n].q = <<"a", "b">>
       /\ ret[hist[n].t].deque = <<"a", "b">>

\* C6: blocking wake.  An emplace() wakes a suspended pop() if there is
\* one, and a consumer suspended in pop() while the queue is active and
\* holds an item (pushed after it suspended) eventually returns an item,
\* unless the sequence becomes empty (another consumer or a clear() took
\* the item) or the queue is deactivated.
C6_BlockingWake ==
    /\ [][\A t \in Threads :
            (StepOf(t, "emplace", "notify", "idle") /\ m_cv # {})
            => (m_cv' # m_cv /\ m_cv' \subseteq m_cv)]_vars
    /\ \A t \in Threads :
          (call[t] = "pop" /\ pc[t] = "wait" /\ m_active /\ m_queue # <<>>)
          ~> \/ (call[t] = "pop" /\ pc[t] = "idle" /\ ret[t].opt # None)
             \/ m_queue = <<>>
             \/ ~m_active

\* a pop() suspended on the empty active queue, an emplace followed, and
\* the pop() returned the emplaced item
C6_Witness ==
    /\ Len(hist) = 2
    /\ hist[1].op = "emplace" /\ hist[1].a /\ hist[1].q = <<>>
    /\ hist[1].cv # {}
    /\ hist[2].op = "pop" /\ hist[2].t \in hist[1].cv
    /\ hist[2].x = hist[1].x
    /\ waited[hist[2].t] /\ pc[hist[2].t] = "idle"
    /\ ret[hist[2].t].opt = hist[1].x

\* thread t was suspended in pop() when event i, an active(false), ran
CancelledAt(t, i) ==
    /\ hist[i].op = "active_set" /\ hist[i].flag = FALSE
    /\ t \in hist[i].cv

\* thread t was suspended in pop() when an active(false) ran, and that
\* pop() has not returned yet
Cancelled(t) ==
    \E i \in 1..Len(hist) :
        CancelledAt(t, i) /\ \A j \in (i+1)..Len(hist) : hist[j].t # t

\* C7 as claimed: every pop() that was suspended when active(false) ran
\* unblocks and returns "no value".
C7_CancelledReturnsNone ==
    \A t \in Threads :
        Cancelled(t) ~> (call[t] = "pop" /\ pc[t] = "idle" /\ ret[t].opt = None)

\* C7 as amended: active(false) takes every suspended pop() out of the wait
\* set in its own critical section, and every one of them eventually
\* returns "no value" unless the queue is active again.
C7_Cancellation ==
    /\ [][\A t \in Threads :
            (StepOf(t, "active_set", "body", "idle") /\ arg[t].flag = FALSE)
            => (m_cv' = {} /\ ~m_active')]_vars
    /\ \A t \in Threads :
          Cancelled(t)
          ~> \/ (call[t] = "pop" /\ pc[t] = "idle" /\ ret[t].opt = None)
             \/ m_active

\* two pops were suspended when active(false) ran and both returned
\* "no value"
C7_Witness ==
    \E i \in 1..Len(hist) :
        /\ hist[i].op = "active_set" /\ hist[i].flag = FALSE
        /\ Cardinality(hist[i].cv) = 2
        /\ \A t \in hist[i].cv :
              call[t] = "pop" /\ pc[t] = "idle" /\ ret[t].opt = None /\ waited[t]

\* C8: a pop() that holds the lock while m_active is false does not
\* suspend: its next step returns "no value", removes nothing and releases
\* the lock.
C8_NoWaitWhenInactive ==
    [][\A t \in Threads :
         (call[t] = "pop" /\ pc[t] = "body" /\ m_mutex = t /\ ~m_active
          /\ pc'[t] # pc[t])
         => /\ pc'[t] = "idle"
            /\ ret'[t].opt = None
            /\ t \notin m_cv'
            /\ m_queue' = m_queue
            /\ m_mutex' = Free]_vars

\* a pop() on the empty, deactivated queue returned "no value" without
\* ever suspending
C8_Witness ==
    \E t \in Threads :
        /\ call[t] = "pop" /\ pc[t] = "idle" /\ ret[t].opt = None /\ ~waited[t]
        /\ hist[Len(hist)].op = "pop" /\ hist[Len(hist)].t = t
        /\ hist[Len(hist)].q = <<>> /\ ~hist[Len(hist)].a

\* C9: every pop() that was suspended when the destructor began and is no
\* longer inside pop() has returned "no value".
C9_TeardownReturnsNone ==
    \A t \in pending :
        \/ pc[t] \in {"lock", "body", "wait"}
        \/ (pc[t] = "idle" /\ ret[t].opt = None)

\* C10: clear(true) leaves the queue empty and active, whatever it was,
\* and an emplace(x) directly followed by a pop() then delivers x.
C10_Reactivation ==
    \A i \in 1..Len(hist) :
        (hist[i].op = "clear" /\ hist[i].flag = TRUE) =>
          /\ i = Len(hist) => (m_queue = <<>> /\ m_active)
          /\ i < Len(hist) => (hist[i+1].q = <<>> /\ hist[i+1].a)
          /\ (i + 2 <= Len(hist) /\ hist[i+1].op = "emplace"
                /\ hist[i+2].op = "pop")
             => hist[i+2].x = hist[i+1].x
          /\ (i + 1 = Len(hist) /\ hist[i+1].op = "emplace")
             => m_queue = <<hist[i+1].x>>

\* the queue was deactivated, clear(true) reactivated it, then b was
\* emplaced and popped
C10_Witness ==
    /\ Len(hist) = 4
    /\ hist[1].op = "active_set" /\ hist[1].flag = FALSE
    /\ hist[2].op = "clear" /\ hist[2].flag = TRUE /\ ~hist[2].a
    /\ hist[3].op = "emplace" /\ hist[3].x = "b"
    /\ hist[4].op = "pop" /\ hist[4].x = "b"
    /\ ret[hist[4].t].opt = "b" /\ m_active /\ m_queue = <<>>

\* C11: queue mutual exclusion.  A thread is inside a critical section
\* exactly when it holds the mutex, so at most one is; a pop() suspended in
\* wait() and a call that is notifying do not hold it; and the sequence
\* and the flag change, and a result is read from them, only in a step of
\* the thread that holds the mutex.
C11_MutualExclusion ==
    /\ [](\A t \in Threads : (pc[t] = "body") <=> (m_mutex = t))
    /\ [](Cardinality({t \in Threads : pc[t] = "body"}) <= 1)
    /\ [][/\ (m_queue' # m_queue \/ m_active' # m_active)
              => \E t \in Threads :
                   m_mutex = t /\ pc[t] = "body" /\ pc'[t] # "body"
          /\ \A t \in Threads :
               (ret'[t] # ret[t] /\ pc[t] # "idle")
               => (m_mutex = t /\ pc[t] = "body")]_vars

\* one thread is inside emplace's critical section while another is
\* suspended in pop() and does not hold the mutex
C11_Witness ==
    \E t, u \in Threads :
        /\ call[t] = "pop" /\ pc[t] = "wait" /\ t \in m_cv
        /\ call[u] = "emplace" /\ pc[u] = "body" /\ m_mutex = u

\* C15: the predicate is evaluated again on every wake-up.  pop() returns
\* only from a critical section in which the sequence is non-empty or the
\* queue is inactive; a pop() that holds the mutex over an empty, active
\* queue (first evaluation, spurious wake-up, or an item already taken by
\* another consumer) goes to wait on the condition variable and returns
\* nothing.
C15_PredicateRecheck ==
    [][\A t \in Threads :
          (call[t] = "pop" /\ pc[t] = "body" /\ pc'[t] # "body")
          => /\ pc'[t] = "idle"
                => (m_mutex = t /\ (m_queue # <<>> \/ ~m_active))
             /\ (m_queue = <<>> /\ m_active)
                => (pc'[t] = "wait" /\ t \in m_cv' /\ ret'[t] = ret[t]
                    /\ hist' = hist)]_vars

\* a suspended pop() was notified by an emplace whose item another consumer
\* took, and is suspended again
C15_Witness ==
    \E t \in Threads :
        /\ call[t] = "pop" /\ pc[t] = "wait" /\ t \in m_cv
        /\ Len(hist) = 2
        /\ hist[1].op = "emplace" /\ hist[1].a /\ hist[1].cv = {t}
        /\ pc[hist[1].t] = "idle"
        /\ hist[2].op = "pop" /\ hist[2].t # t /\ hist[2].x # None
        /\ m_queue = <<>> /\ m_active

\* C17: pop() returns "no value" only from a critical section in which the
\* queue is inactive.  While the queue is active, a pop() that leaves its
\* critical section either returns the front item or suspends.
C17_NoneOnlyWhenInactive ==
    [][\A t \in Threads :
          (call[t] = "pop" /\ pc[t] = "body" /\ pc'[t] # "body")
          => /\ (pc'[t] = "idle" /\ ret'[t].opt = None)
                => (~m_active /\ ~m_active')
             /\ m_active
                => \/ pc'[t] = "wait"
                   \/ /\ pc'[t] = "idle"
                      /\ m_queue # <<>>
                      /\ ret'[t].opt = Head(m_queue)
             /\ ~m_active
                => (pc'[t] = "idle" /\ ret'[t].opt = None)]_vars

\* a pop() has returned "no value" from an inactive queue that holds items
C17_Witness ==
    \E t \in Threads :
        /\ call[t] = "pop" /\ pc[t] = "idle"
        /\ ret[t].opt = None
        /\ hist # <<>>
        /\ hist[Len(hist)].op = "pop" /\ hist[Len(hist)].t = t
        /\ hist[Len(hist)].x = None /\ ~hist[Len(hist)].a
        /\ hist[Len(hist)].q # <<>>

\* C18: empty() returns true iff the sequence has no items in its critical
\* section, whatever the flag is; and a step of empty(), of active() or
\* of active(set) leaves the sequence as it is.
C18_EmptyIgnoresFlag ==
    [][\A t \in Threads :
          /\ (call[t] = "empty" /\ pc[t] = "body" /\ pc'[t] = "idle")
             => (ret'[t].bool <=> (m_queue = <<>>))
          /\ (call[t] \in {"empty", "active", "active_set"} /\ pc'[t] # pc[t])
             => m_queue' = m_queue]_vars

\* the thread that deactivated a queue holding an item then called empty()
\* and got false
C18_Witness ==
    \E t \in Threads :
        /\ Len(hist) = 2
        /\ hist[1].op = "emplace" /\ hist[1].a
        /\ hist[2].op = "active_set" /\ ~hist[2].flag /\ hist[2].t = t
        /\ call[t] = "empty" /\ pc[t] = "idle" /\ ret[t].bool = FALSE
        /\ ~m_active /\ m_queue # <<>>

\* C19: item conservation.  Of every value, as many items were accepted
\* as are now in the sequence, were returned by pop() and were returned
\* by clear(), taken together: an accepted item is in exactly one of the
\* three places, none is duplicated or lost, and an item dropped while
\* inactive is in none of them.
C19_Conservation ==
    \A x \in Items :
        Count(x, Accepted(hist))
          = Count(x, m_queue) + Count(x, Popped(hist)) + Count(x, Cleared(hist))

\* of three accepted items one was returned by pop(), one by clear(), and
\* one is in the sequence
C19_Witness ==
    /\ Len(Accepted(hist)) = 3
    /\ Len(Popped(hist)) = 1
    /\ Len(Cleared(hist)) = 1
    /\ Len(m_queue) = 1

\* C20: residual items survive a deactivate/reactivate cycle.  When
\* active(true) is the first reactivation after active(false) and there
\* is no clear() in between, the
\* sequence after active(true) is the one active(false) found, in the same
\* order, and a pop() that comes next returns its first item.
C20_ResidualSurvive ==
    \A i, j \in 1..Len(hist) :
        (/\ i < j
         /\ hist[i].op = "active_set" /\ ~hist[i].flag
         /\ hist[j].op = "active_set" /\ hist[j].flag
         /\ \A k \in (i+1)..(j-1) :
               hist[k].op # "clear" /\ ~(hist[k].op = "active_set" /\ hist[k].flag))
        => /\ hist[j].q = hist[i].q
           /\ j = Len(hist) => (m_queue = hist[i].q /\ m_active)
           /\ j < Len(hist) => (hist[j+1].q = hist[i].q /\ hist[j+1].a)
           /\ (j < Len(hist) /\ hist[j+1].op = "pop" /\ hist[i].q # <<>>)
              => /\ hist[j+1].x = Head(hist[i].q)
                 /\ j + 1 = Len(hist) => m_queue = Tail(hist[i].q)
                 /\ j + 1 < Len(hist) => hist[j+2].q = Tail(hist[i].q)

\* [a, b] was pushed, the queue was deactivated and reactivated, and the
\* next pop() returned a and left b
C20_Witness ==
    /\ Len(hist) = 4
    /\ hist[1].op = "push" /\ hist[1].ts = <<"a", "b">> /\ hist[1].a
    /\ hist[2].op = "active_set" /\ ~hist[2].flag /\ hist[2].q = <<"a", "b">>
    /\ hist[3].op = "active_set" /\ hist[3].flag
    /\ hist[4].op = "pop" /\ hist[4].x = "a"
    /\ m_queue = <<"b">> /\ m_active

\* thread t was the only consumer suspended in pop() when an emplace()
\* was accepted, and that pop() has not returned yet
WokenAlone(t) ==
    \E i \in 1..Len(hist) :
        /\ hist[i].op = "emplace" /\ hist[i].a /\ hist[i].cv = {t}
        /\ \A j \in (i+1)..Len(hist) : hist[j].t # t

\* after an emplace() that was accepted while t alone was suspended,
\* another thread took an item out (by pop() or by clear())
TakenByOther(t) ==
    \E i, j \in 1..Len(hist) :
        /\ i < j
        /\ hist[i].op = "emplace" /\ hist[i].a /\ hist[i].cv = {t}
        /\ hist[j].t # t
        /\ \/ hist[j].op = "pop" /\ hist[j].x # None
           \/ hist[j].op = "clear" /\ hist[j].q # <<>>

C14_OnlyPopSuspends ==
    /\ [](\A t \in Threads :
            /\ (t \in m_cv \/ pc[t] = "wait") => call[t] = "pop"
            /\ (call[t] # "pop" /\ pc[t] \in {"body", "notify"})
               => ENABLED Steps(t))
    /\ [][\A t \in Threads :
            (call[t] # "pop" /\ pc'[t] # pc[t])
            => /\ pc[t] = "body"
                  => (m_mutex' = Free /\ pc'[t] \in {"notify", "idle"})
               /\ pc[t] = "notify" => pc'[t] = "idle"]_vars
    /\ \A t \in Threads :
          (call[t] # "pop" /\ pc[t] \in {"lock", "body", "notify"})
          ~> (pc[t] = "idle")

\* a clear() that ran while a pop() was suspended has ended
C14_Witness ==
    \E t, u \in Threads :
        /\ hist # <<>>
        /\ hist[Len(hist)].op = "clear" /\ hist[Len(hist)].t = u
        /\ t \in hist[Len(hist)].cv
        /\ call[u] = "clear" /\ pc[u] = "idle"
        /\ call[t] = "pop" /\ pc[t] = "wait"

\* C13: failure of a single-item insertion.  The step in which the
\* construction of the item throws releases the mutex and leaves the
\* sequence and the flag as they were; every critical section of emplace()
\* leaves the sequence either as it was or with the whole item appended;
\* and the mutex is never held by a thread that is outside a critical
\* section, so the calls that follow can acquire it.
C13_EmplaceThrows ==
    /\ [][\A t \in Threads :
            (call[t] = "emplace" /\ pc[t] = "body" /\ pc'[t] # "body")
            => /\ m_queue' \in {m_queue, Append(m_queue, arg[t].x)}
               /\ m_active' = m_active
               /\ m_mutex = t /\ m_mutex' = Free
               /\ ret'[t].threw => (m_queue' = m_queue /\ pc'[t] = "idle")]_vars
    /\ [](m_mutex # Free => pc[m_mutex] = "body")

\* an emplace() threw on a queue that held an item, and after it another
\* thread has acquired the mutex in pop() and finds the item there
C13_Witness ==
    \E t, u \in Threads :
        /\ call[t] = "emplace" /\ pc[t] = "idle" /\ ret[t].threw
        /\ call[u] = "pop" /\ pc[u] = "body" /\ m_mutex = u
        /\ m_queue # <<>> /\ m_active
        /\ Accepted(hist) = m_queue

\* C12: locker mutual exclusion.  At most one accessor is alive at any
\* instant, and it belongs to the thread that holds the locker's mutex; a
\* field changes only in a step of that thread; and what a thread has read
\* of the two fields through one const accessor is the tuple before or
\* after a whole update (the two fields agree, as every update writes one
\* value to both), never a half-written one.
C12_LockerExclusion ==
    /\ [](Cardinality({t \in Threads :
                         lk_pc[t] \in {"get1", "get2", "~locked_t"}}) <= 1)
    /\ [](\A t \in Threads :
            (lk_pc[t] \in {"get1", "get2", "~locked_t"}) <=> (mutex = t))
    /\ [](\A t \in Threads :
            (lk_arg[t].const /\ lk_pc[t] \in {"~locked_t", "idle"})
            => lk_seen[t][1] = lk_seen[t][2])
    /\ [][tuple' # tuple
          => \E t \in Threads : mutex = t /\ ~lk_arg[t].const /\ lk_pc'[t] # lk_pc[t]]_vars

\* a writer has written the first field only, a second thread is blocked
\* in lock() const, and a third has read a whole update made earlier
C12_Witness ==
    \E t, u, w \in Threads :
        /\ ~lk_arg[t].const /\ lk_pc[t] = "get2" /\ tuple[1] # tuple[2]
        /\ lk_arg[u].const /\ lk_pc[u] = "locked_t"
        /\ lk_arg[w].const /\ lk_pc[w] = "idle"
        /\ lk_seen[w][1] # Zero /\ lk_seen[w][1] = lk_seen[w][2]

====
